---- MODULE Spec2Model ----
(***************************************************************************)
(* Verification model of the forecasting bot's core:                       *)
(*   - trading_strategy.py : find_local_extrema,                           *)
(*                           calculate_investment_strategy                 *)
(*   - model_evaluator.py  : evaluate_models                               *)
(*                                                                         *)
(* Prices are positive integers.  Cash, share counts and profits are exact *)
(* rationals <<numerator, denominator>> in lowest terms (the source uses   *)
(* floats; cash / price is generally not an integer).                      *)
(***************************************************************************)
EXTENDS Integers, Sequences, FiniteSets, TLC

(***************************************************************************)
(* Bounds of the model.                                                    *)
(***************************************************************************)
MaxLen == 6        \* longest enumerated forecast
MaxPrice == 3      \* enumerated forecast values are 1..MaxPrice
MaxRmse == 2       \* enumerated RMSE values are 1..MaxRmse (plus the examples)
MaxMape == 2       \* enumerated MAPE values are 1..MaxMape
MaxSeriesLen == 66 \* longest enumerated price series
MaxDays == 2       \* longest enumerated horizon
MaxCalls == 2      \* calls made on one model instance
MaxArr == 3        \* longest enumerated pair of metric arrays
MaxValue == 2      \* enumerated array values are 0..MaxValue

\* Forecasts of the specification's worked examples (spec.md section 8).
ExampleForecasts == { <<10, 8, 12, 7, 15, 15, 9>>, <<8, 12, 7, 15>> }

\* Investment amounts handed to the simulator.
Investments == {7, 1000}

RECURSIVE SeqsUpTo(_, _)
SeqsUpTo(S, n) ==
    IF n = 0 THEN { <<>> }
    ELSE LET shorter == SeqsUpTo(S, n - 1)
         IN  shorter \cup { Append(s, x) : s \in { t \in shorter : Len(t) = n - 1 }, x \in S }

Forecasts == SeqsUpTo(1..MaxPrice, MaxLen) \cup ExampleForecasts

(***************************************************************************)
(* Exact rational arithmetic for cash / price and shares * price.          *)
(***************************************************************************)
RECURSIVE GCD(_, _)
GCD(a, b) == IF b = 0 THEN a ELSE GCD(b, a % b)

Abs(x) == IF x < 0 THEN -x ELSE x

Rat(n, d) ==
    LET g == GCD(Abs(n), d)
    IN  IF n = 0 THEN <<0, 1>> ELSE <<n \div g, d \div g>>

Zero == Rat(0, 1)
FromInt(n) == Rat(n, 1)
RatDivInt(r, p) == Rat(r[1], r[2] * p)
RatMulInt(r, p) == Rat(r[1] * p, r[2])
RatSub(r, s) == Rat(r[1] * s[2] - s[1] * r[2], r[2] * s[2])
RatDiv(r, s) == Rat(r[1] * s[2], r[2] * s[1])
IsPos(r) == r[1] > 0
IsZero(r) == r[1] = 0

(***************************************************************************)
(* State.                                                                  *)
(***************************************************************************)
VARIABLES
    \* calculate_investment_strategy (trading_strategy.py)
    forecast,            \* argument: sequence of forecast prices, forecast[k] is day k
    investment_amount,   \* argument: positive amount
    buy_points,          \* local minima, <<day, price>> pairs
    sell_points,         \* local maxima, <<day, price>> pairs
    all_events,          \* merged list of [day, price, action], sorted by day
    ev,                  \* index into all_events of the next event of the walk
    cash,                \* rational
    shares,              \* rational
    trades,              \* executed trades, in order
    result,              \* the returned dictionary
    pc                   \* position in calculate_investment_strategy

stratVars == <<forecast, investment_amount, buy_points, sell_points, all_events,
               ev, cash, shares, trades, result, pc>>

VARIABLES
    \* evaluate_models (model_evaluator.py)
    m,                   \* index into Models of the next variant of the loop
    train_log,           \* what each model.train / calculate_metrics call did, in order
    results,             \* dict name -> [model, metrics], in insertion order
    all_metrics,         \* dict name -> metrics, in insertion order
    ret,                 \* the returned tuple
    epc                  \* position in evaluate_models

evalVars == <<m, train_log, results, all_metrics, ret, epc>>

VARIABLES
    \* the call under study of one forecasting model (models/*.py)
    variant,             \* which model class the instance is, "none" when no model runs
    df,                  \* the price column of the DataFrame of the current call
    test_size,           \* test_size of the last train call, <<numerator, denominator>>
    calls                \* number of train / predict calls made on the instance

inputVars == <<variant, df, test_size, calls>>

VARIABLES
    \* ARIMAModel (models/arima_model.py)
    a_order,             \* self.order
    a_fitted,            \* self.fitted_model
    a_op,                \* the method running or last run: "train" or "predict"
    a_pc,                \* position in that method
    a_steps,             \* steps = len(test_data) in train, days in predict
    a_data,              \* the data the fits of the current call are given
    a_test,              \* test_data of train
    a_attempts,          \* the fits attempted by the current call, in order
    a_out                \* what the call returned

arimaVars == <<a_order, a_fitted, a_op, a_pc, a_steps, a_data, a_test, a_attempts, a_out>>

VARIABLES
    \* MLModel (models/ml_model.py)
    ml_scaler,           \* self.scaler: the rows it was fitted on
    ml_regressor,        \* self.model: the rows and targets it was fitted on
    ml_op,               \* the method running or last run: "train" or "predict"
    ml_pc,               \* position in that method
    ml_days,             \* days of predict
    ml_last,             \* last_data, the feature row of the rollout
    ml_predictions,      \* predictions
    ml_out               \* what the call returned

mlVars == <<ml_scaler, ml_regressor, ml_op, ml_pc, ml_days, ml_last, ml_predictions, ml_out>>

VARIABLES
    \* LSTMModel (models/lstm_model.py)
    l_scaler,            \* self.scaler: data_min and data_max of the fit
    l_model,             \* self.model: the windows and targets it was fitted on
    l_pc,                \* position in train
    l_out                \* what train returned

lstmVars == <<l_scaler, l_model, l_pc, l_out>>

VARIABLES
    \* calculate_metrics (model_evaluator.py)
    y_true,              \* argument: the held-out actual values
    y_pred,              \* argument: the predictions for them
    cm_out,              \* the returned dictionary
    mpc                  \* position in calculate_metrics

metricVars == <<y_true, y_pred, cm_out, mpc>>

VARIABLES
    \* process_amount (main.py)
    ppc,                 \* the step of the try block at hand
    p_model,             \* best_model_name
    p_forecast,          \* whether forecast has been assigned
    p_trace              \* the calls made after evaluate_models, in order

pipeVars == <<ppc, p_model, p_forecast, p_trace>>

\*-- frame begin
vars == <<stratVars, evalVars, inputVars, arimaVars, mlVars, lstmVars, metricVars, pipeVars>>

stratOthers == <<evalVars, inputVars, arimaVars, mlVars, lstmVars, metricVars, pipeVars>>

evalOthers == <<stratVars, inputVars, arimaVars, mlVars, lstmVars, metricVars, pipeVars>>

arimaOthers == <<stratVars, evalVars, mlVars, lstmVars, metricVars, pipeVars>>

mlOthers == <<stratVars, evalVars, arimaVars, lstmVars, metricVars, pipeVars>>

lstmOthers == <<stratVars, evalVars, arimaVars, mlVars, metricVars, pipeVars>>

metricOthers == <<stratVars, evalVars, inputVars, arimaVars, mlVars, lstmVars, pipeVars>>

pipeOthers == <<stratVars, evalVars, inputVars, arimaVars, mlVars, lstmVars, metricVars>>
\*-- frame end

(***************************************************************************)
(* find_local_extrema.  The loops run over the 0-based interior indices    *)
(* i = 1 .. len-2; with 1-based sequences that is k = i + 1 = 2 .. Len-1,  *)
(* and the recorded day i + 1 is k itself.                                 *)
(***************************************************************************)
\* Variant: a value equal to a neighbour counts as a minimum.
IsLocalMin_NonStrict(f, k) == f[k] <= f[k - 1] /\ f[k] <= f[k + 1]

IsLocalMin(f, k) == f[k] < f[k - 1] /\ f[k] < f[k + 1]

IsLocalMax(f, k) == f[k] > f[k - 1] /\ f[k] > f[k + 1]

InteriorIndices(f) == 2 .. (Len(f) - 1)

RECURSIVE local_minima(_, _)
local_minima(f, k) ==
    IF k \notin InteriorIndices(f) THEN <<>>
    ELSE (IF IsLocalMin(f, k) THEN << <<k, f[k]>> >> ELSE <<>>) \o local_minima(f, k + 1)

RECURSIVE local_maxima(_, _)
local_maxima(f, k) ==
    IF k \notin InteriorIndices(f) THEN <<>>
    ELSE (IF IsLocalMax(f, k) THEN << <<k, f[k]>> >> ELSE <<>>) \o local_maxima(f, k + 1)

find_local_extrema(f) == << local_minima(f, 2), local_maxima(f, 2) >>

(***************************************************************************)
(* The merged event list: buys appended first, then sells, then a stable   *)
(* sort on the day (list.sort with key = day).                             *)
(***************************************************************************)
RECURSIVE TagEvents(_, _)
TagEvents(points, action) ==
    IF points = <<>> THEN <<>>
    ELSE << [day |-> Head(points)[1], price |-> Head(points)[2], action |-> action] >>
         \o TagEvents(Tail(points), action)

InsertByDay(sorted, e) ==
    LET k == Cardinality({ i \in 1..Len(sorted) : sorted[i].day <= e.day })
    IN  SubSeq(sorted, 1, k) \o <<e>> \o SubSeq(sorted, k + 1, Len(sorted))

\* Variant: the event list is left as built, buys before sells.
SortByDay_Unsorted(events) == events

RECURSIVE SortByDay(_)
SortByDay(events) ==
    IF events = <<>> THEN <<>>
    ELSE InsertByDay(SortByDay(SubSeq(events, 1, Len(events) - 1)), events[Len(events)])

MergeEvents(buys, sells) == SortByDay(TagEvents(buys, "buy") \o TagEvents(sells, "sell"))

(***************************************************************************)
(* Trades.  The source's action strings are, in order, the Russian for     *)
(* "Buy", "Sell" and "Sell (end of period)".                               *)
(***************************************************************************)
Trade(day, action, price, n) == [day |-> day, action |-> action, price |-> price, shares |-> n]

\* Variant: multiplies instead of dividing.
BuyShares_Times(c, price) == RatMulInt(c, price)

BuyShares(c, price) == RatDivInt(c, price)          \* shares = cash / price

\* Variant: divides instead of multiplying.
SellCash_Divides(n, price) == RatDivInt(n, price)

SellCash(n, price) == RatMulInt(n, price)           \* cash = shares * price

\* Variant: buys on every buy event, open position or not.
CanBuy_Always(e, n) == e.action = "buy"

\* Line 75: buy only when no position is open.
CanBuy(e, n) == e.action = "buy" /\ IsZero(n)

\* Variant: sells on every sell event, position or not.
CanSell_Always(e, n) == e.action = "sell"

\* Line 84: sell only when a position is open.
CanSell(e, n) == e.action = "sell" /\ IsPos(n)

\* Variant: liquidates at the first forecast value.
FinalPrice_First(f) == f[1]

\* Line 96: forecast[-1].
FinalPrice(f) == f[Len(f)]

\* Variant: the early return reports the profit as the final amount.
EarlyResult_ZeroAmount(amount) ==
    [recommendations  |-> <<>>,
     total_profit      |-> Zero,
     profit_percentage |-> Zero,
     final_amount      |-> Zero,
     trades_count      |-> 0]

\* Lines 51-57: the dictionary of the early return.
EarlyResult(amount) ==
    [recommendations  |-> <<>>,
     total_profit      |-> Zero,
     profit_percentage |-> Zero,
     final_amount      |-> FromInt(amount),
     trades_count      |-> 0]

\* Variant: the difference is taken the wrong way round.
TotalProfit_Swapped(final_amount, amount) == RatSub(FromInt(amount), final_amount)

\* Line 108: total_profit = final_amount - investment_amount.
TotalProfit(final_amount, amount) == RatSub(final_amount, FromInt(amount))

NoResult == [pending |-> TRUE]

StratInit ==
    /\ forecast \in Forecasts
    /\ investment_amount \in Investments
    /\ buy_points = <<>>
    /\ sell_points = <<>>
    /\ all_events = <<>>
    /\ ev = 1
    /\ cash = Zero
    /\ shares = Zero
    /\ trades = <<>>
    /\ result = NoResult
    /\ pc = "call"

\* Lines 46-57: no candidate at all, the early return.
NoTradePoints ==
    /\ pc = "call"
    /\ LET ext == find_local_extrema(forecast)
       IN  /\ ext[1] = <<>> /\ ext[2] = <<>>
           /\ buy_points' = ext[1]
           /\ sell_points' = ext[2]
    /\ result' = EarlyResult(investment_amount)
    /\ pc' = "done"
    /\ UNCHANGED <<forecast, investment_amount, all_events, ev, cash, shares, trades>>
    /\ UNCHANGED stratOthers

\* Lines 46-71: candidates exist; open the account and build the event list.
BuildEvents ==
    /\ pc = "call"
    /\ LET ext == find_local_extrema(forecast)
       IN  /\ ~(ext[1] = <<>> /\ ext[2] = <<>>)
           /\ buy_points' = ext[1]
           /\ sell_points' = ext[2]
           /\ all_events' = MergeEvents(ext[1], ext[2])
    /\ trades' = <<>>
    /\ cash' = FromInt(investment_amount)
    /\ shares' = Zero
    /\ ev' = 1
    /\ pc' = "walk"
    /\ UNCHANGED <<forecast, investment_amount, result>>
    /\ UNCHANGED stratOthers

\* Lines 74-92: one iteration of the loop over all_events.
WalkEvent ==
    /\ pc = "walk"
    /\ ev <= Len(all_events)
    /\ LET e == all_events[ev]
       IN  IF CanBuy(e, shares)
           THEN /\ shares' = BuyShares(cash, e.price)
                /\ trades' = Append(trades, Trade(e.day, "Buy", e.price, BuyShares(cash, e.price)))
                /\ cash' = Zero
           ELSE IF CanSell(e, shares)
           THEN /\ cash' = SellCash(shares, e.price)
                /\ trades' = Append(trades, Trade(e.day, "Sell", e.price, shares))
                /\ shares' = Zero
           ELSE UNCHANGED <<cash, shares, trades>>
    /\ ev' = ev + 1
    /\ UNCHANGED <<forecast, investment_amount, buy_points, sell_points, all_events, result, pc>>
    /\ UNCHANGED stratOthers

\* Lines 94-104: after the last event, sell what is left at forecast[-1].
EndOfPeriod ==
    /\ pc = "walk"
    /\ ev > Len(all_events)
    /\ IF IsPos(shares)
       THEN LET final_price == FinalPrice(forecast)
            IN  /\ cash' = SellCash(shares, final_price)
                /\ trades' = Append(trades, Trade(Len(forecast), "Sell (end of period)",
                                                  final_price, shares))
                /\ shares' = Zero
       ELSE UNCHANGED <<cash, shares, trades>>
    /\ pc' = "profit"
    /\ UNCHANGED <<forecast, investment_amount, buy_points, sell_points, all_events, ev, result>>
    /\ UNCHANGED stratOthers

\* Lines 106-119: the profit figures and the returned dictionary.
ComputeResult ==
    /\ pc = "profit"
    /\ LET final_amount == IF IsZero(shares) THEN cash
                           ELSE SellCash(shares, FinalPrice(forecast))
           total_profit == TotalProfit(final_amount, investment_amount)
       IN  result' = [recommendations  |-> trades,
                      total_profit      |-> total_profit,
                      profit_percentage |-> RatMulInt(RatDiv(total_profit,
                                                             FromInt(investment_amount)), 100),
                      final_amount      |-> final_amount,
                      trades_count      |-> Len(trades),
                      buy_points        |-> buy_points,
                      sell_points       |-> sell_points]
    /\ pc' = "done"
    /\ UNCHANGED <<forecast, investment_amount, buy_points, sell_points, all_events,
                   ev, cash, shares, trades>>
    /\ UNCHANGED stratOthers

StratNext == NoTradePoints \/ BuildEvents \/ WalkEvent \/ EndOfPeriod \/ ComputeResult

\* The simulator is not running.
StratIdle ==
    /\ forecast = <<>>
    /\ investment_amount = 0
    /\ buy_points = <<>>
    /\ sell_points = <<>>
    /\ all_events = <<>>
    /\ ev = 1
    /\ cash = Zero
    /\ shares = Zero
    /\ trades = <<>>
    /\ result = NoResult
    /\ pc = "idle"

(***************************************************************************)
(* evaluate_models.  The list of line 51-55 holds one instance per         *)
(* variant; an instance is identified by its position in the list, its     *)
(* name is the .name its constructor sets.                                 *)
(***************************************************************************)
Models == << "Random Forest", "ARIMA", "LSTM" >>

ModelName(i) == Models[i]

\* RMSE values, in tenths; 25, 40 and 99 are the 2.5, 4.0 and 9.9 of spec.md section 8.
RmseValues == (1..MaxRmse) \cup {25, 40, 99}

\* What calculate_metrics may hand back for a variant whose train returned.
MetricsValues == [RMSE : RmseValues, MAPE : 1..MaxMape]

\* A Python dict as the sequence of its items in insertion order:
\* d[key] = value replaces the value of a present key in place, else appends.
DictKeys(d) == [i \in 1..Len(d) |-> d[i].key]

DictHas(d, key) == \E i \in 1..Len(d) : d[i].key = key

DictGet(d, key) == d[CHOOSE i \in 1..Len(d) : d[i].key = key].value

DictSet(d, key, value) ==
    IF DictHas(d, key)
    THEN [i \in 1..Len(d) |-> IF d[i].key = key THEN [key |-> key, value |-> value] ELSE d[i]]
    ELSE Append(d, [key |-> key, value |-> value])

\* The key function of line 84.
RmseOf(d, name) == DictGet(d, name).metrics.RMSE

\* Variant: the largest key wins.
Better_Greater(d, x, best) == RmseOf(d, x) > RmseOf(d, best)

\* Variant: a later element with an equal key replaces the best so far.
Better_OrEqual(d, x, best) == RmseOf(d, x) <= RmseOf(d, best)

\* x replaces the best so far only when its key is strictly smaller (builtin min).
Better(d, x, best) == RmseOf(d, x) < RmseOf(d, best)

\* min(keys, key = ...): the first of the minimal elements in iteration order.
RECURSIVE MinFrom(_, _, _, _)
MinFrom(d, keys, i, best) ==
    IF i > Len(keys) THEN best
    ELSE MinFrom(d, keys, i + 1, IF Better(d, keys[i], best) THEN keys[i] ELSE best)

MinByRmse(d) == MinFrom(d, DictKeys(d), 2, DictKeys(d)[1])

NoReturn == [pending |-> TRUE]

EvalInit ==
    /\ m = 1
    /\ train_log = <<>>
    /\ results = <<>>
    /\ all_metrics = <<>>
    /\ ret = NoReturn
    /\ epc = "loop"

\* Lines 62-74: train and calculate_metrics return; the variant is recorded.
TrainSucceeds ==
    /\ epc = "loop"
    /\ m <= Len(Models)
    /\ \E metrics \in MetricsValues :
          /\ results' = DictSet(results, ModelName(m), [model |-> m, metrics |-> metrics])
          /\ all_metrics' = DictSet(all_metrics, ModelName(m), metrics)
          /\ train_log' = Append(train_log, [model |-> m, raised |-> FALSE, metrics |-> metrics])
    /\ m' = m + 1
    /\ UNCHANGED <<ret, epc>>
    /\ UNCHANGED evalOthers

\* Variant: the exception is not caught and ends evaluate_models.
TrainRaises_Uncaught ==
    /\ epc = "loop"
    /\ m <= Len(Models)
    /\ train_log' = Append(train_log, [model |-> m, raised |-> TRUE])
    /\ epc' = "raised"
    /\ UNCHANGED <<m, results, all_metrics, ret>>
    /\ UNCHANGED evalOthers

\* Lines 63-66, 76-78: train or calculate_metrics raises; except ... continue.
TrainRaises ==
    /\ epc = "loop"
    /\ m <= Len(Models)
    /\ train_log' = Append(train_log, [model |-> m, raised |-> TRUE])
    /\ m' = m + 1
    /\ UNCHANGED <<results, all_metrics, ret, epc>>
    /\ UNCHANGED evalOthers

\* Lines 80-81: nothing was recorded.
AllFailed ==
    /\ epc = "loop"
    /\ m > Len(Models)
    /\ results = <<>>
    /\ epc' = "raised"
    /\ UNCHANGED <<m, train_log, results, all_metrics, ret>>
    /\ UNCHANGED evalOthers

\* Lines 83-90: the selection and the return.
SelectBest ==
    /\ epc = "loop"
    /\ m > Len(Models)
    /\ results # <<>>
    /\ LET best_model_name == MinByRmse(results)
       IN  ret' = [best_model      |-> DictGet(results, best_model_name).model,
                   best_model_name |-> best_model_name,
                   best_metrics    |-> DictGet(results, best_model_name).metrics,
                   all_metrics     |-> all_metrics]
    /\ epc' = "returned"
    /\ UNCHANGED <<m, train_log, results, all_metrics>>
    /\ UNCHANGED evalOthers

EvalNext == TrainSucceeds \/ TrainRaises \/ AllFailed \/ SelectBest

\* The harness is not running.
EvalIdle ==
    /\ m = 1
    /\ train_log = <<>>
    /\ results = <<>>
    /\ all_metrics = <<>>
    /\ ret = NoReturn
    /\ epc = "idle"

(***************************************************************************)
(* Inputs of the forecasting models: the price column of the DataFrame,    *)
(* the test fraction and the horizon.                                      *)
(***************************************************************************)
\* Price series of a given length: a rising ramp and a sawtooth.
Ramp(n) == [i \in 1..n |-> i]

Saw(n) == [i \in 1..n |-> ((i * 3) % 7) + 1]

SeriesSet == { Ramp(n) : n \in 0..MaxSeriesLen } \cup { Saw(n) : n \in 0..MaxSeriesLen }

\* Test fractions <<numerator, denominator>>; 1/5 is config.TEST_SIZE = 0.2.
TestFractions == { <<1, 5>>, <<1, 3>> }

\* Horizons handed to predict.
Horizons == 1..MaxDays

\* Variant: the test share is taken for the training share.
SplitIndex_TestShare(n, f) == (n * f[1]) \div f[2]

\* int(n * (1 - test_size)).
SplitIndex(n, f) == (n * (f[2] - f[1])) \div f[2]

Leading(rows, k) == SubSeq(rows, 1, k)

Trailing(rows, k) == SubSeq(rows, k + 1, Len(rows))

\* The instance may be called again.
MayCall == calls < MaxCalls

(***************************************************************************)
(* ARIMAModel.  A fit (constructor, fit, forecast) is a library call: it   *)
(* either raises or yields a forecast of the requested number of steps,    *)
(* here the last value of its data plus a drift per step.                  *)
(***************************************************************************)
DefaultOrder == <<5, 1, 0>>

MinimalOrder == <<1, 1, 1>>

Drifts == {0, 1}

NoFit == [kind |-> "none", order |-> <<0, 0, 0>>, data |-> <<>>]

Fit(kind, order, data) == [kind |-> kind, order |-> order, data |-> data]

ArimaForecast(data, steps, drift) == [i \in 1..steps |-> data[Len(data)] + drift * i]

Attempt(kind, order, ok, fc) == [kind |-> kind, order |-> order, ok |-> ok, forecast |-> fc]

\* Lines 14-18: the constructor.
ArimaInit ==
    /\ variant = "ARIMA"
    /\ df \in SeriesSet
    /\ test_size = <<0, 1>>
    /\ calls = 0
    /\ a_order = DefaultOrder
    /\ a_fitted = NoFit
    /\ a_op = "none"
    /\ a_pc = "ready"
    /\ a_steps = 0
    /\ a_data = <<>>
    /\ a_test = <<>>
    /\ a_attempts = <<>>
    /\ a_out = <<>>

ArimaIdle ==
    /\ a_order = DefaultOrder
    /\ a_fitted = NoFit
    /\ a_op = "none"
    /\ a_pc = "idle"
    /\ a_steps = 0
    /\ a_data = <<>>
    /\ a_test = <<>>
    /\ a_attempts = <<>>
    /\ a_out = <<>>

\* train, lines 28-33: the split, before the first try.
ArimaTrainCall ==
    /\ variant = "ARIMA"
    /\ a_pc \in {"ready", "returned", "raised"}
    /\ MayCall
    /\ \E f \in TestFractions :
          LET split_idx == SplitIndex(Len(df), f)
          IN  /\ test_size' = f
              /\ a_data' = Leading(df, split_idx)
              /\ a_test' = Trailing(df, split_idx)
              /\ a_steps' = Len(Trailing(df, split_idx))
    /\ a_op' = "train"
    /\ a_pc' = "first"
    /\ a_attempts' = <<>>
    /\ a_out' = <<>>
    /\ calls' = calls + 1
    /\ UNCHANGED <<variant, df, a_order, a_fitted>>
    /\ UNCHANGED arimaOthers

\* predict, line 65, before the first try.
ArimaPredictCall ==
    /\ variant = "ARIMA"
    /\ a_pc \in {"ready", "returned", "raised"}
    /\ MayCall
    /\ \E days \in Horizons : a_steps' = days
    /\ a_data' = df
    /\ a_test' = <<>>
    /\ a_op' = "predict"
    /\ a_pc' = "first"
    /\ a_attempts' = <<>>
    /\ a_out' = <<>>
    /\ calls' = calls + 1
    /\ UNCHANGED <<variant, df, test_size, a_order, a_fitted>>
    /\ UNCHANGED arimaOthers

\* What a call returns: train (test_data, forecast), predict the forecast.
ArimaReturn(fc) == IF a_op = "train" THEN <<a_test, fc>> ELSE fc

\* The order of the first try (lines 37 and 69).
FirstOrder == a_order

\* train lines 36-43, predict lines 68-75: the first try succeeds.
ArimaFirstFit ==
    /\ a_pc = "first"
    /\ Len(a_data) > 0
    /\ \E drift \in Drifts :
          LET fc == ArimaForecast(a_data, a_steps, drift)
          IN  /\ a_out' = ArimaReturn(fc)
              /\ a_attempts' = Append(a_attempts, Attempt("ARIMA", FirstOrder, TRUE, fc))
    /\ a_fitted' = Fit("ARIMA", FirstOrder, a_data)
    /\ a_pc' = "returned"
    /\ UNCHANGED <<inputVars, a_order, a_op, a_steps, a_data, a_test>>
    /\ UNCHANGED arimaOthers

\* train lines 36-45, predict lines 68-77: the first try raises, in the
\* constructor or fit (nothing assigned) or in forecast (fitted_model assigned).
ArimaFirstRaises ==
    /\ a_pc = "first"
    /\ \E fitted \in { b \in BOOLEAN : b => Len(a_data) > 0 } :
          a_fitted' = IF fitted THEN Fit("ARIMA", FirstOrder, a_data) ELSE a_fitted
    /\ a_attempts' = Append(a_attempts, Attempt("ARIMA", FirstOrder, FALSE, <<>>))
    /\ a_pc' = "second"
    /\ UNCHANGED <<inputVars, a_order, a_op, a_steps, a_data, a_test, a_out>>
    /\ UNCHANGED arimaOthers

\* train lines 48-53, predict lines 80-85: the try with order (1,1,1) succeeds.
ArimaSecondFit ==
    /\ a_pc = "second"
    /\ Len(a_data) > 0
    /\ a_order' = MinimalOrder
    /\ \E drift \in Drifts :
          LET fc == ArimaForecast(a_data, a_steps, drift)
          IN  /\ a_out' = ArimaReturn(fc)
              /\ a_attempts' = Append(a_attempts, Attempt("ARIMA", MinimalOrder, TRUE, fc))
    /\ a_fitted' = Fit("ARIMA", MinimalOrder, a_data)
    /\ a_pc' = "returned"
    /\ UNCHANGED <<inputVars, a_op, a_steps, a_data, a_test>>
    /\ UNCHANGED arimaOthers

\* Variant: predict gives up after the two orders, like train.
AfterSecondRaises_GivesUp(op) == "raised"

\* Where a call goes when its try with order (1,1,1) raises: train raises
\* ValueError (lines 54-55), predict goes on to the smoothing (lines 86-88).
AfterSecondRaises(op) == IF op = "train" THEN "raised" ELSE "third"

\* train lines 48-55, predict lines 80-88: the try with order (1,1,1) raises.
ArimaSecondRaises ==
    /\ a_pc = "second"
    /\ a_order' = MinimalOrder
    /\ \E fitted \in { b \in BOOLEAN : b => Len(a_data) > 0 } :
          a_fitted' = IF fitted THEN Fit("ARIMA", MinimalOrder, a_data) ELSE a_fitted
    /\ a_attempts' = Append(a_attempts, Attempt("ARIMA", MinimalOrder, FALSE, <<>>))
    /\ a_pc' = AfterSecondRaises(a_op)
    /\ UNCHANGED <<inputVars, a_op, a_steps, a_data, a_test, a_out>>
    /\ UNCHANGED arimaOthers

\* predict lines 89-93: exponential smoothing, trend 'add', seasonal None;
\* its model is a local, self.fitted_model is not assigned.
ArimaSmoothing ==
    /\ a_pc = "third"
    /\ Len(a_data) > 0
    /\ \E drift \in Drifts :
          LET fc == ArimaForecast(a_data, a_steps, drift)
          IN  /\ a_out' = ArimaReturn(fc)
              /\ a_attempts' = Append(a_attempts, Attempt("ExponentialSmoothing", <<0, 0, 0>>, TRUE, fc))
    /\ a_pc' = "returned"
    /\ UNCHANGED <<inputVars, a_order, a_fitted, a_op, a_steps, a_data, a_test>>
    /\ UNCHANGED arimaOthers

\* predict lines 89-93: the smoothing raises, outside every try.
ArimaSmoothingRaises ==
    /\ a_pc = "third"
    /\ a_attempts' = Append(a_attempts, Attempt("ExponentialSmoothing", <<0, 0, 0>>, FALSE, <<>>))
    /\ a_pc' = "raised"
    /\ UNCHANGED <<inputVars, a_order, a_fitted, a_op, a_steps, a_data, a_test, a_out>>
    /\ UNCHANGED arimaOthers

ArimaNext ==
    \/ ArimaTrainCall \/ ArimaPredictCall
    \/ ArimaFirstFit \/ ArimaFirstRaises
    \/ ArimaSecondFit \/ ArimaSecondRaises
    \/ ArimaSmoothing \/ ArimaSmoothingRaises

(***************************************************************************)
(* MLModel.  StandardScaler and RandomForestRegressor are library objects: *)
(* fitting either on zero rows raises, a fitted scaler or regressor is     *)
(* known by the rows it was fitted on, and the regressor's answer to a row *)
(* is a value the model does not compute.                                  *)
(***************************************************************************)
Lags == 10

MaShort == 7

MaLong == 30

MomentumShift == 5

RECURSIVE SumOver(_, _, _)
SumOver(p, a, b) == IF a > b THEN 0 ELSE p[a] + SumOver(p, a + 1, b)

RECURSIVE SumSquares(_, _, _)
SumSquares(p, a, b) == IF a > b THEN 0 ELSE p[a] * p[a] + SumSquares(p, a + 1, b)

\* rolling(window = w).mean() at row t.
RollingMean(p, t, w) == Rat(SumOver(p, t - w + 1, t), w)

\* rolling(window = w).std() at row t: the root of the sample variance.
RollingStd(p, t, w) ==
    [root_of |-> Rat(w * SumSquares(p, t - w + 1, t)
                       - SumOver(p, t - w + 1, t) * SumOver(p, t - w + 1, t),
                     w * (w - 1))]

\* Variant: the lag count adds to the longest rolling window.
HasNaN_WindowsAdd(t) == t < MaLong + Lags

\* Row t has an undefined feature: shift(i) is NaN for t <= i, a rolling
\* window of w for t < w.
HasNaN(t) == t <= Lags \/ t < MaShort \/ t < MaLong \/ t <= MomentumShift

\* Lines 26-41: the feature row of day t.
FeatureRow(p, t) ==
    [Date     |-> t,
     Price    |-> p[t],
     lags     |-> [i \in 1..Lags |-> p[t - i]],
     ma_7     |-> RollingMean(p, t, MaShort),
     ma_30    |-> RollingMean(p, t, MaLong),
     std_7    |-> RollingStd(p, t, MaShort),
     momentum |-> p[t] - p[t - MomentumShift],
     roc      |-> Rat((p[t] - p[t - MomentumShift]) * 100, p[t - MomentumShift])]

RECURSIVE FeatureRowsFrom(_, _)
FeatureRowsFrom(p, t) ==
    IF t > Len(p) THEN <<>>
    ELSE (IF HasNaN(t) THEN <<>> ELSE << FeatureRow(p, t) >>) \o FeatureRowsFrom(p, t + 1)

\* Lines 24-46: all feature rows, those with a NaN dropped.
create_features(p) == FeatureRowsFrom(p, 1)

Prices(rows) == [i \in 1..Len(rows) |-> rows[i].Price]

Unfitted == [fitted |-> FALSE, rows |-> <<>>]

FittedOn(rows) == [fitted |-> TRUE, rows |-> rows]

\* Answers the regressor may give to a rollout row.
PredValues == {2, 5}

\* The regressor's predictions for the test rows: one per row.
Biases == {0, 1}

TestPredictions(rows, bias) == [i \in 1..Len(rows) |-> rows[i].lags[1] + bias]

\* Lines 11-14: the constructor.
MLInit ==
    /\ variant = "Random Forest"
    /\ df \in SeriesSet
    /\ test_size = <<0, 1>>
    /\ calls = 0
    /\ ml_scaler = Unfitted
    /\ ml_regressor = Unfitted
    /\ ml_op = "none"
    /\ ml_pc = "ready"
    /\ ml_days = 0
    /\ ml_last = <<>>
    /\ ml_predictions = <<>>
    /\ ml_out = <<>>

MLIdle ==
    /\ ml_scaler = Unfitted
    /\ ml_regressor = Unfitted
    /\ ml_op = "none"
    /\ ml_pc = "idle"
    /\ ml_days = 0
    /\ ml_last = <<>>
    /\ ml_predictions = <<>>
    /\ ml_out = <<>>

MLCallable == variant = "Random Forest" /\ ml_pc \in {"ready", "returned", "raised"} /\ MayCall

\* Line 63-65: the rows the scaler and the regressor of train are fitted on.
TrainRows(rows, f) == Leading(rows, SplitIndex(Len(rows), f))

\* Line 64-65: the held-out rows of train.
TestRows(rows, f) == Trailing(rows, SplitIndex(Len(rows), f))

\* Lines 56-77: train returns (y_test, y_pred).
MLTrain ==
    /\ MLCallable
    /\ \E data \in {create_features(df)}, f \in TestFractions, bias \in Biases :
          \E X_train \in {TrainRows(data, f)}, X_test \in {TestRows(data, f)} :
              /\ Len(X_train) > 0
              /\ Len(X_test) > 0
              /\ test_size' = f
              /\ ml_scaler' = FittedOn(X_train)
              /\ ml_regressor' = FittedOn(X_train)
              /\ ml_out' = << Prices(X_test), TestPredictions(X_test, bias) >>
    /\ ml_op' = "train"
    /\ ml_pc' = "returned"
    /\ calls' = calls + 1
    /\ ml_predictions' = <<>>
    /\ UNCHANGED <<variant, df, ml_days, ml_last>>
    /\ UNCHANGED mlOthers

\* Lines 56-68: scaler.fit_transform raises on a training partition of zero
\* rows (fit resets the scaler before it validates its input).
MLTrainRaises ==
    /\ MLCallable
    /\ \E data \in {create_features(df)}, f \in TestFractions :
          /\ Len(TrainRows(data, f)) = 0
          /\ test_size' = f
    /\ ml_scaler' = Unfitted
    /\ ml_op' = "train"
    /\ ml_pc' = "raised"
    /\ calls' = calls + 1
    /\ ml_predictions' = <<>>
    /\ ml_out' = <<>>
    /\ UNCHANGED <<variant, df, ml_regressor, ml_days, ml_last>>
    /\ UNCHANGED mlOthers

\* Line 91: the row the rollout starts from.
LastData(rows) == rows[Len(rows)]

\* Lines 87-92: predict up to the rollout loop.
MLPredictCall ==
    /\ MLCallable
    /\ ml_scaler.fitted /\ ml_regressor.fitted
    /\ \E data \in {create_features(df)} :
          /\ Len(data) > 0
          /\ ml_last' = LastData(data)
    /\ \E days \in Horizons : ml_days' = days
    /\ ml_predictions' = <<>>
    /\ ml_out' = <<>>
    /\ ml_op' = "predict"
    /\ ml_pc' = "rollout"
    /\ calls' = calls + 1
    /\ UNCHANGED <<variant, df, test_size, ml_scaler, ml_regressor>>
    /\ UNCHANGED mlOthers

\* Lines 87-96: scaler.transform raises: the scaler was never fitted, or
\* last_data has no row.
MLPredictRaises ==
    /\ MLCallable
    /\ ~ml_scaler.fitted \/ ~ml_regressor.fitted \/ Len(create_features(df)) = 0
    /\ \E days \in Horizons : ml_days' = days
    /\ ml_last' = <<>>
    /\ ml_predictions' = <<>>
    /\ ml_out' = <<>>
    /\ ml_op' = "predict"
    /\ ml_pc' = "raised"
    /\ calls' = calls + 1
    /\ UNCHANGED <<variant, df, test_size, ml_scaler, ml_regressor>>
    /\ UNCHANGED mlOthers

\* Lines 102-103: for i in range(10, 1, -1): lag_i = lag_(i-1), highest first.
RECURSIVE ShiftLagsFrom(_, _)
ShiftLagsFrom(lags, i) ==
    IF i <= 1 THEN lags
    ELSE ShiftLagsFrom([lags EXCEPT ![i] = lags[i - 1]], i - 1)

\* Variant: the lags are shifted lowest first, so lag_1 runs through all.
ShiftLags_Ascending(lags) == [i \in 1..Lags |-> lags[1]]

ShiftLags(lags) == ShiftLagsFrom(lags, Lags)

\* Lines 94-107: one step of the rollout.
MLRolloutStep ==
    /\ ml_pc = "rollout"
    /\ Len(ml_predictions) < ml_days
    /\ \E next_price \in PredValues :
          /\ ml_predictions' = Append(ml_predictions, next_price)
          /\ ml_last' = [ml_last EXCEPT !.lags = [ShiftLags(ml_last.lags) EXCEPT ![1] = next_price]]
    /\ UNCHANGED <<inputVars, ml_scaler, ml_regressor, ml_op, ml_pc, ml_days, ml_out>>
    /\ UNCHANGED mlOthers

\* Line 109: predict returns the predictions.
MLPredictReturn ==
    /\ ml_pc = "rollout"
    /\ Len(ml_predictions) >= ml_days
    /\ ml_out' = ml_predictions
    /\ ml_pc' = "returned"
    /\ UNCHANGED <<inputVars, ml_scaler, ml_regressor, ml_op, ml_days, ml_last, ml_predictions>>
    /\ UNCHANGED mlOthers

MLNext ==
    \/ MLTrain \/ MLTrainRaises
    \/ MLPredictCall \/ MLPredictRaises
    \/ MLRolloutStep \/ MLPredictReturn

(***************************************************************************)
(* LSTMModel.train.  MinMaxScaler and the network are library objects:     *)
(* the scaler maps x to (x - min) / (max - min), with a zero range taken   *)
(* as 1; the network is known by the windows it was fitted on and answers  *)
(* a window with one of the window's values.                               *)
(***************************************************************************)
Lookback == 60

RECURSIVE MinFromTo(_, _, _)
MinFromTo(p, i, least) ==
    IF i > Len(p) THEN least
    ELSE MinFromTo(p, i + 1, IF p[i] < least THEN p[i] ELSE least)

MinOf(p) == MinFromTo(p, 2, p[1])

RECURSIVE MaxFromTo(_, _, _)
MaxFromTo(p, i, most) ==
    IF i > Len(p) THEN most
    ELSE MaxFromTo(p, i + 1, IF p[i] > most THEN p[i] ELSE most)

MaxOf(p) == MaxFromTo(p, 2, p[1])

NoScaler == [fitted |-> FALSE, data_min |-> 0, data_max |-> 0]

\* MinMaxScaler.fit.
MinMaxFit(p) == [fitted |-> TRUE, data_min |-> MinOf(p), data_max |-> MaxOf(p)]

ScaleRange(sc) == IF sc.data_max = sc.data_min THEN 1 ELSE sc.data_max - sc.data_min

\* MinMaxScaler.transform of an integer price.
Scale(sc, x) == Rat(x - sc.data_min, ScaleRange(sc))

\* MinMaxScaler.inverse_transform of a scaled value.
Unscale(sc, r) == RatSub(RatMulInt(r, ScaleRange(sc)), FromInt(-sc.data_min))

\* Lines 40-43: the window and the target of position t (t = i + 1).
Window(scaled, t) == [X |-> SubSeq(scaled, t - Lookback, t - 1), y |-> scaled[t]]

RECURSIVE WindowsFrom(_, _)
WindowsFrom(scaled, t) ==
    IF t > Len(scaled) THEN <<>>
    ELSE << Window(scaled, t) >> \o WindowsFrom(scaled, t + 1)

\* Lines 40-51: prepare_data.
prepare_data(scaled) == WindowsFrom(scaled, Lookback + 1)

\* The network's answer to a window: its last value or the one before.
NetChoices == {0, 1}

NetOutput(w, c) == w.X[Lookback - c]

\* Lines 24-28: the constructor.
LstmInit ==
    /\ variant = "LSTM"
    /\ df \in SeriesSet
    /\ test_size = <<0, 1>>
    /\ calls = 0
    /\ l_scaler = NoScaler
    /\ l_model = Unfitted
    /\ l_pc = "ready"
    /\ l_out = <<>>

LstmIdle ==
    /\ l_scaler = NoScaler
    /\ l_model = Unfitted
    /\ l_pc = "idle"
    /\ l_out = <<>>

LstmCallable == variant = "LSTM" /\ l_pc \in {"ready", "returned", "raised"} /\ MayCall

\* Lines 75-79: the windows over the scaled series.
LstmWindows(p) == prepare_data([i \in 1..Len(p) |-> Scale(MinMaxFit(p), p[i])])

\* Lines 75-106: train returns (y_test_original, y_pred).
LstmTrain ==
    /\ LstmCallable
    /\ Len(df) > Lookback
    /\ \E sc \in {MinMaxFit(df)}, windows \in {LstmWindows(df)},
          f \in TestFractions, c \in NetChoices :
          \E train \in {TrainRows(windows, f)}, test \in {TestRows(windows, f)} :
              /\ Len(train) > 0
              /\ test_size' = f
              /\ l_scaler' = sc
              /\ l_model' = FittedOn(train)
              /\ l_out' = << [i \in 1..Len(test) |-> Unscale(sc, test[i].y)],
                             [i \in 1..Len(test) |-> Unscale(sc, NetOutput(test[i], c))] >>
    /\ l_pc' = "returned"
    /\ calls' = calls + 1
    /\ UNCHANGED <<variant, df>>
    /\ UNCHANGED lstmOthers

\* Lines 75-97: train raises: the scaler on an empty series, prepare_data's
\* reshape on zero windows, or fit on zero training windows.
LstmTrainRaises ==
    /\ LstmCallable
    /\ \E f \in TestFractions :
          /\ \/ Len(df) <= Lookback
             \/ SplitIndex(Len(df) - Lookback, f) = 0
          /\ test_size' = f
    /\ l_scaler' = IF Len(df) = 0 THEN NoScaler ELSE MinMaxFit(df)
    /\ l_pc' = "raised"
    /\ l_out' = <<>>
    /\ calls' = calls + 1
    /\ UNCHANGED <<variant, df, l_model>>
    /\ UNCHANGED lstmOthers

LstmNext == LstmTrain \/ LstmTrainRaises

(***************************************************************************)
(* calculate_metrics (model_evaluator.py).  A float is a finite exact      *)
(* rational, a root of one, inf or nan.                                    *)
(***************************************************************************)
Num(r) == [kind |-> "num", value |-> r]

Root(r) == [kind |-> "root", value |-> r]

Inf == [kind |-> "inf", value |-> Zero]

NaN == [kind |-> "nan", value |-> Zero]

\* The arrays train returns: equally long, at least one element.
Arrays(n) == [1..n -> 0..MaxValue]

RatAdd(r, s) == Rat(r[1] * s[2] + s[1] * r[2], r[2] * s[2])

RatSquare(r) == Rat(r[1] * r[1], r[2] * r[2])

RECURSIVE RatSumOver(_, _, _)
RatSumOver(rs, a, b) == IF a > b THEN Zero ELSE RatAdd(rs[a], RatSumOver(rs, a + 1, b))

\* np.sum and np.mean of an integer array.
SumInts(xs) == SumOver(xs, 1, Len(xs))

MeanInts(xs) == Rat(SumInts(xs), Len(xs))

\* y_true - y_pred.
Residuals(y, p) == [i \in 1..Len(y) |-> y[i] - p[i]]

Squared(xs) == [i \in 1..Len(xs) |-> xs[i] * xs[i]]

Absolute(xs) == [i \in 1..Len(xs) |-> Abs(xs[i])]

\* Line 26: abs((y_true - y_pred) / y_true) of one element; x / 0 is inf,
\* 0 / 0 is nan.
RelativeError(d, y) ==
    IF y = 0 THEN (IF d = 0 THEN NaN ELSE Inf) ELSE Num(Rat(Abs(d), Abs(y)))

\* Line 26: np.mean(...) * 100 over floats that may be inf or nan.
MeanPercent(vs) ==
    IF \E i \in 1..Len(vs) : vs[i].kind = "nan" THEN NaN
    ELSE IF \E i \in 1..Len(vs) : vs[i].kind = "inf" THEN Inf
    ELSE Num(RatMulInt(RatDivInt(RatSumOver([i \in 1..Len(vs) |-> vs[i].value], 1, Len(vs)),
                                 Len(vs)), 100))

\* Line 30: np.sum((y_true - np.mean(y_true)) ** 2).
TotalSquares(y) ==
    RatSumOver([i \in 1..Len(y) |-> RatSquare(RatSub(FromInt(y[i]), MeanInts(y)))], 1, Len(y))

\* Variant: the ratio itself instead of one minus the ratio.
R2Score_Ratio(ss_res, ss_tot) ==
    IF ~IsZero(ss_tot) THEN Num(RatDiv(FromInt(ss_res), ss_tot)) ELSE Num(Zero)

\* Line 31: r2 = 1 - (ss_res / ss_tot) if ss_tot != 0 else 0.
R2Score(ss_res, ss_tot) ==
    IF ~IsZero(ss_tot) THEN Num(RatSub(FromInt(1), RatDiv(FromInt(ss_res), ss_tot)))
    ELSE Num(Zero)

\* Lines 19-38.
calculate_metrics(y, p) ==
    [RMSE |-> Root(MeanInts(Squared(Residuals(y, p)))),
     MAE  |-> Num(MeanInts(Absolute(Residuals(y, p)))),
     MAPE |-> MeanPercent([i \in 1..Len(y) |-> RelativeError(y[i] - p[i], y[i])]),
     R2   |-> R2Score(SumInts(Squared(Residuals(y, p))), TotalSquares(y))]

NoMetrics == [pending |-> TRUE]

MetricsInit ==
    /\ \E n \in 1..MaxArr : y_true \in Arrays(n) /\ y_pred \in Arrays(n)
    /\ cm_out = NoMetrics
    /\ mpc = "call"

MetricsIdle ==
    /\ y_true = <<>>
    /\ y_pred = <<>>
    /\ cm_out = NoMetrics
    /\ mpc = "idle"

\* Lines 8-38: one call of calculate_metrics.
CalculateMetrics ==
    /\ mpc = "call"
    /\ cm_out' = calculate_metrics(y_true, y_pred)
    /\ mpc' = "returned"
    /\ UNCHANGED <<y_true, y_pred>>
    /\ UNCHANGED metricOthers

MetricsNext == CalculateMetrics

(***************************************************************************)
(* process_amount (main.py) from the call of evaluate_models on: the steps *)
(* of the try block of lines 99-203 and the handler of lines 205-211.      *)
(***************************************************************************)
\* Lines 122-162: evaluate_models, make_forecast, create_forecast_plot,
\* calculate_investment_strategy, log_request, the answers.
Steps == <<"evaluate", "forecast", "plot", "strategy", "log", "send">>

StepIndex(step) == CHOOSE i \in 1..Len(Steps) : Steps[i] = step

Following(step) ==
    IF StepIndex(step) = Len(Steps) THEN "done" ELSE Steps[StepIndex(step) + 1]

\* Variant: an exception is swallowed and the next step runs.
NextStep_Swallow(step, raised) == Following(step)

\* Lines 99, 205: an exception of any step of the try block enters the handler.
NextStep(step, raised) == IF raised THEN "failed" ELSE Following(step)

PipeInit ==
    /\ ppc = "evaluate"
    /\ p_model = "none"
    /\ p_forecast = "none"
    /\ p_trace = <<>>

PipeIdle ==
    /\ ppc = "idle"
    /\ p_model = "none"
    /\ p_forecast = "none"
    /\ p_trace = <<>>

\* Line 122: evaluate_models returned.
PipeEvaluateReturns ==
    /\ ppc = "evaluate"
    /\ epc = "returned"
    /\ p_model' = ret.best_model_name
    /\ ppc' = NextStep("evaluate", FALSE)
    /\ UNCHANGED <<p_forecast, p_trace>>
    /\ UNCHANGED pipeOthers

\* Line 122: evaluate_models raised.
PipeEvaluateRaises ==
    /\ ppc = "evaluate"
    /\ epc = "raised"
    /\ ppc' = NextStep("evaluate", TRUE)
    /\ UNCHANGED <<p_model, p_forecast, p_trace>>
    /\ UNCHANGED pipeOthers

\* Lines 131-203: the step at hand is called and returns.
PipeStep ==
    /\ ppc \in {"forecast", "plot", "strategy", "log", "send"}
    /\ p_trace' = Append(p_trace, ppc)
    /\ p_forecast' = IF ppc = "forecast" THEN "made" ELSE p_forecast
    /\ ppc' = NextStep(ppc, FALSE)
    /\ UNCHANGED p_model
    /\ UNCHANGED pipeOthers

\* Lines 131-203: the step at hand is called and raises.
PipeStepRaises ==
    /\ ppc \in {"forecast", "plot", "strategy", "log", "send"}
    /\ p_trace' = Append(p_trace, ppc)
    /\ ppc' = NextStep(ppc, TRUE)
    /\ UNCHANGED <<p_model, p_forecast>>
    /\ UNCHANGED pipeOthers

\* Lines 205-211: the handler answers with the error and clears the state.
PipeExcept ==
    /\ ppc = "failed"
    /\ p_trace' = Append(p_trace, "error")
    /\ ppc' = "answered"
    /\ UNCHANGED <<p_model, p_forecast>>
    /\ UNCHANGED pipeOthers

PipeNext ==
    PipeEvaluateReturns \/ PipeEvaluateRaises \/ PipeStep \/ PipeStepRaises \/ PipeExcept

\* No forecasting model runs.
ModelsIdle ==
    /\ variant = "none"
    /\ df = <<>>
    /\ test_size = <<0, 1>>
    /\ calls = 0
    /\ ArimaIdle
    /\ MLIdle
    /\ LstmIdle

\*-- components end
(***************************************************************************)
(* Specifications: one per component.                                      *)
(***************************************************************************)
StrategyInit == StratInit /\ EvalIdle /\ ModelsIdle /\ MetricsIdle /\ PipeIdle

StrategyNext == StratNext

StrategySpec == StrategyInit /\ [][StrategyNext]_vars

HarnessInit == EvalInit /\ StratIdle /\ ModelsIdle /\ MetricsIdle /\ PipeIdle

HarnessNext == EvalNext

HarnessSpec == HarnessInit /\ [][HarnessNext]_vars

ModelsInit ==
    /\ \/ ArimaInit /\ MLIdle /\ LstmIdle
       \/ MLInit /\ ArimaIdle /\ LstmIdle
       \/ LstmInit /\ ArimaIdle /\ MLIdle
    /\ StratIdle
    /\ EvalIdle
    /\ MetricsIdle
    /\ PipeIdle

ModelsNext == ArimaNext \/ MLNext \/ LstmNext

ModelsSpec == ModelsInit /\ [][ModelsNext]_vars

MetricsSpecInit == MetricsInit /\ StratIdle /\ EvalIdle /\ ModelsIdle /\ PipeIdle

MetricsSpec == MetricsSpecInit /\ [][MetricsNext]_vars

PipelineInit == PipeInit /\ EvalInit /\ StratIdle /\ ModelsIdle /\ MetricsIdle

PipelineNext == EvalNext \/ PipeNext

PipelineSpec == PipelineInit /\ [][PipelineNext]_vars

(***************************************************************************)
(* Properties of the strategy simulator (StrategySpec).                    *)
(***************************************************************************)
Last(seq) == seq[Len(seq)]

IsSellAction(a) == a \in {"Sell", "Sell (end of period)"}

CountTrades(ts, actions) == Cardinality({ i \in 1..Len(ts) : ts[i].action \in actions })

\* Buys not yet closed by a sell.
OpenPositions(ts) ==
    CountTrades(ts, {"Buy"}) - CountTrades(ts, {"Sell", "Sell (end of period)"})

\* Every buy of the list is its first trade or directly follows a sell.
BuysOnlyWhenFlat(ts) ==
    \A i \in 1..Len(ts) : ts[i].action = "Buy" => (i = 1 \/ IsSellAction(ts[i - 1].action))

\* C1: at every point of the walk and in the returned result the account is
\* all cash or all shares (shares > 0 implies cash = 0), a buy is executed
\* only when no position is open, and at most one position is open.
C1_OnePosition ==
    /\ IsPos(shares) => IsZero(cash)
    /\ OpenPositions(trades) \in {0, 1}
    /\ IsPos(shares) <=> OpenPositions(trades) = 1
    /\ BuysOnlyWhenFlat(trades)
    /\ pc = "done" =>
          /\ OpenPositions(result.recommendations) = 0
          /\ BuysOnlyWhenFlat(result.recommendations)

\* A second buy candidate arrived while the account was long and was skipped.
C1_Witness ==
    /\ pc = "walk"
    /\ ev > 2
    /\ all_events[ev - 1].action = "buy"
    /\ all_events[ev - 2].action = "buy"
    /\ IsPos(shares)
    /\ Len(trades) = 1

StrictlyLess(f, k) == f[k] < f[k - 1] /\ f[k] < f[k + 1]

StrictlyGreater(f, k) == f[k] > f[k - 1] /\ f[k] > f[k + 1]

ExpectedBuys(f) == { <<k, f[k]>> : k \in { j \in 2..(Len(f) - 1) : StrictlyLess(f, j) } }

ExpectedSells(f) == { <<k, f[k]>> : k \in { j \in 2..(Len(f) - 1) : StrictlyGreater(f, j) } }

Elements(seq) == { seq[i] : i \in 1..Len(seq) }

DaysIncrease(points) == \A i \in 1..(Len(points) - 1) : points[i][1] < points[i + 1][1]

\* C2: find_local_extrema returns as buy candidates exactly the pairs
\* (day, value) of the interior days whose value is strictly below both
\* neighbours and as sell candidates exactly those strictly above both; the
\* first day, the last day and ties are never candidates; on
\* [10, 8, 12, 7, 15, 15, 9] the buys are days 2 and 4, the sell is day 3.
C2_Extrema ==
    pc # "call" /\ pc # "idle" =>
        /\ Elements(buy_points) = ExpectedBuys(forecast)
        /\ Elements(sell_points) = ExpectedSells(forecast)
        /\ DaysIncrease(buy_points) /\ DaysIncrease(sell_points)
        /\ \A p \in Elements(buy_points) \cup Elements(sell_points) :
              /\ p[1] # 1 /\ p[1] # Len(forecast)
              /\ forecast[p[1]] # forecast[p[1] - 1] /\ forecast[p[1]] # forecast[p[1] + 1]
        /\ forecast = <<10, 8, 12, 7, 15, 15, 9>> =>
              /\ buy_points = << <<2, 8>>, <<4, 7>> >>
              /\ sell_points = << <<3, 12>> >>

\* The worked example has been analysed.
C2_Witness ==
    /\ forecast = <<10, 8, 12, 7, 15, 15, 9>>
    /\ pc = "walk"
    /\ Len(buy_points) = 2
    /\ Len(sell_points) = 1

\* C3: the walk takes the events in non-decreasing day order; a buy event
\* while flat turns all cash into shares at the event's price and records a
\* Buy; a sell event while long turns all shares into cash at the event's
\* price and records a Sell; any other event changes nothing.
C3_WalkStep ==
    [][ (pc = "walk" /\ ev' = ev + 1) =>
          LET e == all_events[ev]
          IN  /\ ev > 1 => all_events[ev - 1].day <= e.day
              /\ (e.action = "buy" /\ shares = <<0, 1>>) =>
                    /\ shares' = Rat(cash[1], cash[2] * e.price)
                    /\ cash' = <<0, 1>>
                    /\ trades' = Append(trades, [day |-> e.day, action |-> "Buy",
                                                 price |-> e.price, shares |-> shares'])
              /\ (e.action = "sell" /\ shares[1] > 0) =>
                    /\ cash' = Rat(shares[1] * e.price, shares[2])
                    /\ shares' = <<0, 1>>
                    /\ trades' = Append(trades, [day |-> e.day, action |-> "Sell",
                                                 price |-> e.price, shares |-> shares])
              /\ (e.action = "buy" /\ shares[1] > 0) => UNCHANGED <<cash, shares, trades>>
              /\ (e.action = "sell" /\ shares = <<0, 1>>) => UNCHANGED <<cash, shares, trades>>
      ]_vars

\* A sell was skipped while flat, then a buy and a sell were executed.
C3_Witness ==
    /\ pc = "walk"
    /\ ev = 4
    /\ all_events[1].action = "sell"
    /\ Len(trades) = 2
    /\ trades[1].action = "Buy"
    /\ trades[2].action = "Sell"

\* C4: if the account is long after the last event, exactly one sell is
\* appended, at price forecast[-1] and day len(forecast), marked end of
\* period, and the account ends flat; if it is flat nothing is appended; in
\* every case the simulation ends with shares = 0.
C4_EndOfPeriod ==
    /\ [][ (pc = "walk" /\ pc' = "profit") =>
             /\ ev > Len(all_events)
             /\ shares[1] > 0 =>
                   /\ trades' = Append(trades, [day    |-> Len(forecast),
                                                action |-> "Sell (end of period)",
                                                price  |-> forecast[Len(forecast)],
                                                shares |-> shares])
                   /\ cash' = Rat(shares[1] * forecast[Len(forecast)], shares[2])
             /\ shares[1] = 0 => UNCHANGED <<trades, cash>>
             /\ shares' = <<0, 1>>
       ]_vars
    /\ [](pc \in {"profit", "done"} =>
             /\ shares = <<0, 1>>
             /\ CountTrades(trades, {"Sell (end of period)"}) <= 1)
    /\ [](pc = "done" /\ result.trades_count > 0 => result.recommendations = trades)

\* The account was still long after the last event and was liquidated.
C4_Witness ==
    /\ pc = "done"
    /\ Len(trades) >= 2
    /\ Last(trades).action = "Sell (end of period)"
    /\ Last(trades).day = Len(forecast)

\* Cash after replaying a trade list from an all-cash account.
RECURSIVE Replay(_, _, _)
Replay(ts, c, n) ==
    IF ts = <<>> THEN c
    ELSE IF Head(ts).action = "Buy"
         THEN Replay(Tail(ts), <<0, 1>>, Rat(c[1], c[2] * Head(ts).price))
         ELSE Replay(Tail(ts), Rat(n[1] * Head(ts).price, n[2]), <<0, 1>>)

\* C5: in every result total_profit = final_amount - investment_amount,
\* trades_count is the length of the trade list, and final_amount is the cash
\* obtained by replaying the returned trades from investment_amount.
C5_ResultRelations ==
    pc = "done" =>
        /\ result.total_profit =
              Rat(result.final_amount[1] - investment_amount * result.final_amount[2],
                  result.final_amount[2])
        /\ result.trades_count = Len(result.recommendations)
        /\ result.final_amount =
              Replay(result.recommendations, <<investment_amount, 1>>, <<0, 1>>)

\* A result with two round trips and a final amount other than the investment.
C5_Witness ==
    /\ pc = "done"
    /\ result.trades_count = 4
    /\ result.total_profit # <<0, 1>>

NoCandidates(f) == \A k \in 2..(Len(f) - 1) : ~StrictlyLess(f, k) /\ ~StrictlyGreater(f, k)

\* C6: with neither a buy nor a sell candidate (short, constant or monotone
\* forecasts included) the call returns at once an empty trade list,
\* trades_count 0, total_profit 0, profit_percentage 0 and final_amount equal
\* to investment_amount.
C6_NoCandidates ==
    NoCandidates(forecast) =>
        /\ pc = "call" => ENABLED NoTradePoints
        /\ pc \in {"call", "done"}
        /\ pc = "done" =>
              /\ result.recommendations = <<>>
              /\ result.trades_count = 0
              /\ result.total_profit = <<0, 1>>
              /\ result.profit_percentage = <<0, 1>>
              /\ result.final_amount = <<investment_amount, 1>>

\* A monotone forecast of three values was answered.
C6_Witness ==
    /\ pc = "done"
    /\ forecast = <<1, 2, 3>>
    /\ result.trades_count = 0

\* C7 as stated: on [8, 12, 7, 15] with 1000 invested the first trade is a
\* buy at day 1 at price 8 giving 125 shares.
C7_AsStated ==
    (pc = "done" /\ forecast = <<8, 12, 7, 15>> /\ investment_amount = 1000) =>
        /\ result.trades_count >= 1
        /\ result.recommendations[1] =
              [day |-> 1, action |-> "Buy", price |-> 8, shares |-> <<125, 1>>]

\* C7 amended: on [8, 12, 7, 15] with 1000 invested the first trade is a buy
\* at day 3 at price 7 giving 1000/7 shares (day 1 is no candidate, the sell
\* candidate of day 2 is skipped while flat).
C7_FirstTrade ==
    (pc = "done" /\ forecast = <<8, 12, 7, 15>> /\ investment_amount = 1000) =>
        /\ result.trades_count >= 1
        /\ result.recommendations[1] =
              [day |-> 3, action |-> "Buy", price |-> 7, shares |-> <<1000, 7>>]

\* The example has been simulated to its end.
C7_Witness ==
    /\ pc = "done"
    /\ forecast = <<8, 12, 7, 15>>
    /\ investment_amount = 1000
    /\ result.trades_count = 2

(***************************************************************************)
(* Properties of the evaluation harness (HarnessSpec).                     *)
(***************************************************************************)
Succeeded == { i \in 1..Len(train_log) : ~train_log[i].raised }

Failed == { i \in 1..Len(train_log) : train_log[i].raised }

\* The dict holds exactly the variants that succeeded, each with its metrics.
HoldsSuccesses(d) ==
    /\ Len(d) = Cardinality(Succeeded)
    /\ \A i \in Succeeded :
          \E j \in 1..Len(d) : /\ d[j].key = Models[train_log[i].model]
                               /\ d[j].value = train_log[i].metrics

\* C8: an exception while training or scoring one variant skips that variant
\* only: every other variant is still trained and every success is recorded
\* in the metrics mapping; evaluate_models returns if and only if at least
\* one variant succeeds and raises when all fail.
C8_FailureIsolation ==
    /\ epc # "idle" =>
          /\ \A i \in 1..Len(train_log) : train_log[i].model = i
          /\ HoldsSuccesses(all_metrics)
    /\ epc \in {"returned", "raised"} => Len(train_log) = Len(Models)
    /\ epc = "returned" => Succeeded # {} /\ HoldsSuccesses(ret.all_metrics)
    /\ epc = "raised" => Succeeded = {}
    /\ (epc = "loop" /\ Len(train_log) = Len(Models)) =>
          /\ ENABLED SelectBest <=> Succeeded # {}
          /\ ENABLED AllFailed <=> Succeeded = {}

\* Two of the three variants raised and the call returned the survivor.
C8_Witness ==
    /\ epc = "returned"
    /\ Cardinality(Failed) = 2
    /\ Cardinality(Succeeded) = 1
    /\ \A i \in Succeeded : ret.best_model = train_log[i].model

\* C9: on return the selected variant's RMSE is at most that of every variant
\* that trained successfully, whatever their names or positions (for RMSE
\* 4.0, 2.5, 9.9 the second is selected); instance, name and metrics belong
\* to one variant; the per-model mapping has one entry per successful variant.
C9_MinimumRmse ==
    epc = "returned" =>
        /\ \A i \in Succeeded : ret.best_metrics.RMSE <= train_log[i].metrics.RMSE
        /\ \E i \in Succeeded :
              /\ ret.best_model = train_log[i].model
              /\ ret.best_model_name = Models[train_log[i].model]
              /\ ret.best_metrics = train_log[i].metrics
        /\ Len(ret.all_metrics) = Cardinality(Succeeded)
        /\ \A i \in Succeeded :
              Cardinality({ j \in 1..Len(ret.all_metrics) :
                               ret.all_metrics[j].key = Models[train_log[i].model] }) = 1
        /\ (Succeeded = {1, 2, 3} /\ train_log[1].metrics.RMSE = 40
              /\ train_log[2].metrics.RMSE = 25 /\ train_log[3].metrics.RMSE = 99)
           => ret.best_model = 2

\* The three variants scored 4.0, 2.5 and 9.9 and the second was returned.
C9_Witness ==
    /\ epc = "returned"
    /\ Succeeded = {1, 2, 3}
    /\ train_log[1].metrics.RMSE = 40
    /\ train_log[2].metrics.RMSE = 25
    /\ train_log[3].metrics.RMSE = 99
    /\ ret.best_model = 2

\* The survivors that share the minimum RMSE, by name.
MinimalNames ==
    { Models[train_log[i].model] : i \in
        { j \in Succeeded : \A k \in Succeeded :
              train_log[j].metrics.RMSE <= train_log[k].metrics.RMSE } }

\* The first name of the order that is among the candidates.
FirstIn(order, candidates) ==
    order[CHOOSE i \in 1..Len(order) :
             /\ order[i] \in candidates
             /\ \A j \in 1..(i - 1) : order[j] \notin candidates]

\* C10 as stated: among the survivors that share the minimum RMSE the harness
\* selects the first in the order ARIMA, Random Forest, LSTM.
C10_AsStated ==
    epc = "returned" =>
        ret.best_model_name = FirstIn(<<"ARIMA", "Random Forest", "LSTM">>, MinimalNames)

\* C10 amended: among the survivors that share the minimum RMSE the harness
\* selects the first in the order of its model list: Random Forest, ARIMA,
\* LSTM.
C10_TieBreak ==
    epc = "returned" =>
        ret.best_model_name = FirstIn(<<"Random Forest", "ARIMA", "LSTM">>, MinimalNames)

\* Random Forest and ARIMA tied on the minimum and Random Forest was returned.
C10_Witness ==
    /\ epc = "returned"
    /\ Succeeded = {1, 2, 3}
    /\ train_log[1].metrics.RMSE = train_log[2].metrics.RMSE
    /\ train_log[3].metrics.RMSE > train_log[1].metrics.RMSE
    /\ ret.best_model_name = "Random Forest"

(***************************************************************************)
(* Properties of the forecasting models (ModelsSpec).                      *)
(***************************************************************************)
AllFailedBefore(attempts, i) == \A j \in 1..(i - 1) : ~attempts[j].ok

\* C11: predict tries a first ARIMA fit, then ARIMA (1,1,1), then
\* additive-trend exponential smoothing; a step is tried only if the one
\* before raised, the forecast of the first step that succeeds is returned
\* and nothing is tried after it, only a failure of the last step reaches the
\* caller.  train has the first two steps only and raises when both fail.
C11_FallbackChain ==
    variant = "ARIMA" =>
        /\ \A i \in 1..Len(a_attempts) :
              /\ AllFailedBefore(a_attempts, i)
              /\ i = 1 => a_attempts[i].kind = "ARIMA"
              /\ i = 2 => a_attempts[i].kind = "ARIMA" /\ a_attempts[i].order = <<1, 1, 1>>
              /\ i = 3 => a_attempts[i].kind = "ExponentialSmoothing" /\ a_op = "predict"
        /\ Len(a_attempts) <= (IF a_op = "train" THEN 2 ELSE 3)
        /\ a_pc = "first" => Len(a_attempts) = 0
        /\ a_pc = "second" => Len(a_attempts) = 1
        /\ a_pc = "third" => Len(a_attempts) = 2 /\ a_op = "predict"
        /\ a_pc = "returned" =>
              /\ a_attempts[Len(a_attempts)].ok
              /\ a_out = (IF a_op = "train"
                          THEN <<a_test, a_attempts[Len(a_attempts)].forecast>>
                          ELSE a_attempts[Len(a_attempts)].forecast)
        /\ a_pc = "raised" =>
              /\ AllFailedBefore(a_attempts, Len(a_attempts) + 1)
              /\ Len(a_attempts) = (IF a_op = "train" THEN 2 ELSE 3)

\* predict returned the forecast of the smoothing after both orders raised.
C11_Witness ==
    /\ variant = "ARIMA"
    /\ a_op = "predict"
    /\ a_pc = "returned"
    /\ Len(a_attempts) = 3
    /\ a_attempts[3].kind = "ExponentialSmoothing"
    /\ a_out = a_attempts[3].forecast

\* C16: every train or predict call on an instance makes its first fit
\* attempt with the default order (5,1,0), also after an earlier call fell
\* back to (1,1,1).
C16_AsStated ==
    (variant = "ARIMA" /\ a_attempts # <<>>) => a_attempts[1].order = <<5, 1, 0>>

\* The split the claim describes: the first floor(n * (1 - f)) rows lead.
SplitsAt(rows, f, fitted_on, actual, predicted, targets) ==
    LET n == Len(rows)
        k == (n * (f[2] - f[1])) \div f[2]
    IN  /\ Len(fitted_on) = k
        /\ \A i \in 1..k : fitted_on[i] = rows[i]
        /\ Len(actual) = n - k
        /\ Len(predicted) = n - k
        /\ \A i \in 1..(n - k) : actual[i] = targets[k + i]

\* The windows of a series, each over the 60 scaled values before its target.
\* lo and hi are the least and the greatest value of the series.
Least(p) == { x \in Elements(p) : \A z \in Elements(p) : x <= z }

Greatest(p) == { x \in Elements(p) : \A z \in Elements(p) : x >= z }

WindowsOf(p, lo, hi) ==
    LET sc(x) == Rat(x - lo, IF hi = lo THEN 1 ELSE hi - lo)
    IN  [j \in 1..(Len(p) - 60) |->
            [X |-> [i \in 1..60 |-> sc(p[j + i - 1])], y |-> sc(p[j + 60])]]

\* C12: train with test fraction f splits the variant's ordered rows (prices,
\* feature rows, windows) at floor(n * (1 - f)) without reordering: the model
\* is fitted on the leading part only, the trailing part is held out, the two
\* parts together are the original rows, and the returned actual and
\* predicted arrays have the held-out length, the actual array being the
\* held-out values in their original order.
C12_ChronologicalSplit ==
    /\ (variant = "ARIMA" /\ a_op = "train" /\ a_pc = "returned") =>
          /\ SplitsAt(df, test_size, a_fitted.data, a_out[1], a_out[2], df)
          /\ a_fitted.data \o a_out[1] = df
    /\ (variant = "Random Forest" /\ ml_op = "train" /\ ml_pc = "returned") =>
          \A rows \in {create_features(df)} :
              /\ SplitsAt(rows, test_size, ml_regressor.rows, ml_out[1], ml_out[2],
                          [i \in 1..Len(rows) |-> df[rows[i].Date]])
              /\ ml_scaler.rows = ml_regressor.rows
    /\ (variant = "LSTM" /\ l_pc = "returned") =>
          \A lo \in Least(df), hi \in Greatest(df) :
              \A rows \in {WindowsOf(df, lo, hi)} :
                  SplitsAt(rows, test_size, l_model.rows, l_out[1], l_out[2],
                           [i \in 1..Len(rows) |-> <<df[i + 60], 1>>])

\* The recurrent model held out two of five or six windows.
C12_Witness ==
    /\ variant = "LSTM"
    /\ l_pc = "returned"
    /\ test_size = <<1, 3>>
    /\ Len(l_out[1]) = 2
    /\ Len(l_model.rows) >= 3

\* C13 as stated: every series shorter than 40 points loses all its feature
\* rows, and train on it raises.
C13_AsStated ==
    (variant = "Random Forest" /\ Len(df) < 40) =>
        /\ create_features(df) = <<>>
        /\ (ml_op = "train" /\ ml_pc \in {"returned", "raised"}) => ml_pc = "raised"

\* C13: feature engineering drops exactly the first 29 rows (the 30-day
\* rolling window covers the 10 lags), so every series shorter than 30 points
\* loses all its rows and train on it raises; a longer series keeps
\* len - 29 rows, and neither the scaler nor the regressor is ever fitted on
\* zero rows.
C13_ShortSeries ==
    variant = "Random Forest" =>
        \A data \in {create_features(df)} :
            /\ Len(df) < 30 => data = <<>>
            /\ Len(df) >= 30 =>
                  /\ Len(data) = Len(df) - 29
                  /\ \A i \in 1..Len(data) : data[i].Date = i + 29
            /\ (Len(df) < 30 /\ ml_op = "train" /\ ml_pc \in {"returned", "raised"}) =>
                  ml_pc = "raised" /\ ~ml_scaler.fitted
            /\ ml_scaler.fitted => Len(ml_scaler.rows) > 0
            /\ ml_regressor.fitted => Len(ml_regressor.rows) > 0

\* train raised on a series of 1 to 29 points.
C13_Witness ==
    /\ variant = "Random Forest"
    /\ Len(df) \in 1..29
    /\ ml_op = "train"
    /\ ml_pc = "raised"

\* C17 as stated: the scaler and the regressor that predict uses on the
\* rollout rows were fitted on all feature rows of the series handed to
\* predict.
C17_AsStated ==
    (variant = "Random Forest" /\ ml_op = "predict" /\ ml_pc \in {"rollout", "returned"}) =>
        \A data \in {create_features(df)} :
            /\ ml_scaler.rows = data
            /\ ml_regressor.rows = data

\* The row the rollout of predict started from.
StartRow == LastData(create_features(df))

\* C18: after k rollout steps lag_j is the (k-j+1)-th prediction for j <= k
\* and the start row's lag_(j-k) otherwise (lag_1 is the value just
\* predicted, every other lag the one below it a step earlier), ma_7, ma_30,
\* std_7, momentum and roc are those of the last historical row, and predict
\* returns exactly days values.
C18_Rollout ==
    (variant = "Random Forest" /\ ml_op = "predict" /\ ml_pc \in {"rollout", "returned"}) =>
        \A start \in {StartRow}, k \in {Len(ml_predictions)} :
            /\ k <= ml_days
            /\ \A j \in 1..10 :
                  ml_last.lags[j] = IF j <= k THEN ml_predictions[k - j + 1]
                                    ELSE start.lags[j - k]
            /\ ml_last.ma_7 = start.ma_7
            /\ ml_last.ma_30 = start.ma_30
            /\ ml_last.std_7 = start.std_7
            /\ ml_last.momentum = start.momentum
            /\ ml_last.roc = start.roc
            /\ ml_pc = "returned" => (ml_out = ml_predictions /\ Len(ml_out) = ml_days)

\* predict returned two different values after two rollout steps.
C18_Witness ==
    /\ variant = "Random Forest"
    /\ ml_op = "predict"
    /\ ml_pc = "returned"
    /\ Len(ml_out) = 2
    /\ ml_out[1] # ml_out[2]
    /\ ml_last.lags[1] = ml_out[2]
    /\ ml_last.lags[2] = ml_out[1]

\* C19 as stated: the first rollout row has lag_1 = the last known price and
\* lag_j = the price j-1 days before the last known date.
C19_AsStated ==
    (variant = "Random Forest" /\ ml_op = "predict" /\ ml_pc = "rollout"
        /\ ml_predictions = <<>>) =>
        \A j \in 1..10 : ml_last.lags[j] = df[Len(df) - (j - 1)]

\* C20: the returned trades alternate Buy, Sell, begin with a Buy and end
\* with a Sell, so trades_count is even; their days strictly increase and lie
\* in 1..len(forecast); the forced end-of-period sell comes on the last day,
\* later than the last buy.
C20_TradesAlternate ==
    pc = "done" =>
        \A ts \in {result.recommendations} :
            /\ result.trades_count = Len(ts)
            /\ Len(ts) % 2 = 0
            /\ \A i \in 1..Len(ts) :
                  /\ i % 2 = 1 => ts[i].action = "Buy"
                  /\ i % 2 = 0 => IsSellAction(ts[i].action)
                  /\ ts[i].day \in 1..Len(forecast)
                  /\ i > 1 => ts[i - 1].day < ts[i].day
                  /\ ts[i].action = "Sell (end of period)" =>
                        /\ i = Len(ts)
                        /\ ts[i].day = Len(forecast)
                        /\ ts[i - 1].action = "Buy"
                        /\ ts[i - 1].day < Len(forecast)

\* Two round trips were returned, the second closed by the forced sell.
C20_Witness ==
    /\ pc = "done"
    /\ Len(result.recommendations) = 4
    /\ result.recommendations[3].action = "Buy"
    /\ result.recommendations[4].action = "Sell (end of period)"

\* The array holds one value only.
IsConstant(y) == \A i \in 1..Len(y) : y[i] = y[1]

IdenticalNonZero == y_true = y_pred /\ \A i \in 1..Len(y_true) : y_true[i] # 0

\* C14 as stated: identical arrays with non-zero actual values give
\* RMSE = MAE = MAPE = 0 and R2 = 1.
C14_AsStated ==
    (mpc = "returned" /\ IdenticalNonZero) =>
        /\ cm_out.RMSE = Root(Zero)
        /\ cm_out.MAE = Num(Zero)
        /\ cm_out.MAPE = Num(Zero)
        /\ cm_out.R2 = Num(FromInt(1))

\* C14: identical arrays with non-zero actual values give RMSE = MAE =
\* MAPE = 0; R2 is 1 when the actual values are not all equal and 0 when
\* they are (zero variance, a single value included).
C14_IdenticalArrays ==
    (mpc = "returned" /\ IdenticalNonZero) =>
        /\ cm_out.RMSE = Root(Zero)
        /\ cm_out.MAE = Num(Zero)
        /\ cm_out.MAPE = Num(Zero)
        /\ cm_out.R2 = IF IsConstant(y_true) THEN Num(Zero) ELSE Num(FromInt(1))

\* Metrics of identical arrays with two different non-zero values.
C14_Witness ==
    /\ mpc = "returned"
    /\ IdenticalNonZero
    /\ ~IsConstant(y_true)
    /\ cm_out.R2 = Num(FromInt(1))

\* The step was called in this request.
Called(step) == \E i \in 1..Len(p_trace) : p_trace[i] = step

\* C15: predict (make_forecast) and the strategy simulation are called only
\* after evaluate_models has returned a model whose train succeeded; when
\* every variant fails, evaluate_models raises, the request goes to the
\* handler, neither of the two is called and no forecast exists.
C15_ForecastNeedsModel ==
    /\ (Called("forecast") \/ Called("strategy") \/ p_forecast = "made"
          \/ ppc \in {"forecast", "plot", "strategy", "log", "send", "done"}) =>
          /\ epc = "returned"
          /\ p_model = ret.best_model_name
          /\ \E i \in Succeeded : Models[train_log[i].model] = p_model
    /\ Called("strategy") => (Called("forecast") /\ p_forecast = "made")
    /\ (ppc # "idle" /\ epc = "raised") =>
          /\ Succeeded = {}
          /\ ~Called("forecast") /\ ~Called("strategy")
          /\ p_forecast = "none"
          /\ ppc \in {"evaluate", "failed", "answered"}
          /\ ppc = "answered" => p_trace = <<"error">>

\* Every variant failed and the request was answered with the error.
C15_Witness ==
    /\ epc = "raised"
    /\ Len(train_log) = 3
    /\ ppc = "answered"
    /\ p_trace = <<"error">>

\* The product of the prices of the trades at positions first, first + 2, ...
RECURSIVE PriceProduct(_, _)
PriceProduct(ts, first) ==
    IF first > Len(ts) THEN 1 ELSE ts[first].price * PriceProduct(ts, first + 2)

\* Every sell of the list is at a price not below the buy it closes.
SellsNotBelowBuys(ts) ==
    \A i \in 1..Len(ts) : (i % 2 = 0) => ts[i].price >= ts[i - 1].price

SellsNotAboveBuys(ts) ==
    \A i \in 1..Len(ts) : (i % 2 = 0) => ts[i].price <= ts[i - 1].price

\* C21 as stated: every executed sell, the forced one included, is at a
\* price not below the price of the buy it closes, so the final amount is
\* not below the investment and the profit is not negative.
C21_AsStated ==
    pc = "done" =>
        /\ SellsNotBelowBuys(result.recommendations)
        /\ result.final_amount[1] >= investment_amount * result.final_amount[2]
        /\ result.total_profit[1] >= 0

\* C21: the final amount is the investment times the product of the
\* sell / buy price ratios of the round trips, whatever the prices: it is
\* not below the investment when every sell is at or above its buy, and
\* not above it when every sell is at or below its buy; the profit has the
\* sign of final_amount - investment_amount.
C21_ProfitFollowsPrices ==
    pc = "done" =>
        \A ts \in {result.recommendations} :
            /\ result.final_amount[1] * PriceProduct(ts, 1)
                  = investment_amount * PriceProduct(ts, 2) * result.final_amount[2]
            /\ SellsNotBelowBuys(ts) =>
                  result.final_amount[1] >= investment_amount * result.final_amount[2]
            /\ SellsNotAboveBuys(ts) =>
                  result.final_amount[1] <= investment_amount * result.final_amount[2]
            /\ result.total_profit[1] >= 0
                  <=> result.final_amount[1] >= investment_amount * result.final_amount[2]

\* A position bought at a local minimum was liquidated on the last day below
\* its buy price, and the result reports a loss.
C21_Witness ==
    /\ pc = "done"
    /\ Len(result.recommendations) = 2
    /\ result.recommendations[2].action = "Sell (end of period)"
    /\ result.recommendations[2].price < result.recommendations[1].price
    /\ result.total_profit[1] < 0

====
